---------------------------- MODULE Spec2Model ----------------------------
(***************************************************************************)
(* Model of support_api.py: the Telegram support bot that fetches unread  *)
(* mail, stores it under numeric handles (email_store), and lets the       *)
(* operator draft and refine AI replies (ai_responses).                    *)
(*                                                                         *)
(* Scheduling: every handler is a coroutine on one event loop.  A         *)
(* coroutine runs without interruption up to its next `await`; the        *)
(* blocking `requests` calls (token, mail, language model) do not suspend.*)
(* Each action below is one such uninterrupted run.  Coroutines that are  *)
(* suspended at an `await` may be resumed in any order.                    *)
(***************************************************************************)
EXTENDS Integers, Sequences, FiniteSets, TLC

(***************************************************************************)
(* Bounds of the model.                                                    *)
(***************************************************************************)
\* customer messages in the mailbox, so the longest batch a fetch returns
MaxUnread == 2

\* customer messages in the mailbox of the specification SpecLong
MaxLong == 3

\* emails[:5], the number of emails one fetch processes
Cap == 5

\* slots for fetch workflows (invocations of fetch_emails_command) in flight
Proc == {1, 2}

(***************************************************************************)
(* Values.                                                                 *)
(***************************************************************************)
\* EMAIL_ADDRESS, the configured mailbox
EMAIL_ADDRESS == <<"support", 0>>

\* the i-th customer message; a body is a sequence of markup tags and text
Customer(i) ==
    [address |-> <<"customer", i>>, name |-> <<"name", i>>, subject |-> <<"subject", i>>,
     body |-> <<"<p>", <<"text", i>>>>]

\* a message the mailbox sent itself
SelfMail ==
    [address |-> EMAIL_ADDRESS, name |-> <<"name", 0>>, subject |-> <<"subject", 0>>,
     body |-> <<<<"text", 0>>>>]

\* a mailbox with n customer messages and one of its own, in the provider's
\* order (receivedDateTime desc)
MailboxOf(n) == <<Customer(1), SelfMail>> \o [i \in 1..(n - 1) |-> Customer(i + 1)]

\* the mailbox the operator's commands work on
Mailbox == MailboxOf(MaxUnread)

RECURSIVE SubLists(_)
\* the lists that keep some elements of l, in l's order
SubLists(l) ==
    IF l = <<>> THEN {<<>>}
    ELSE LET rest == SubLists(Tail(l))
         IN  rest \cup {<<Head(l)>> \o r : r \in rest}

\* responses of the mail provider to the unread query on mailbox `box`: a
\* status and the messages of the mailbox that are unread
ResponsesOf(box) ==
    {[status |-> 200, value |-> v] : v \in SubLists(box)}
        \cup {[status |-> 500, value |-> <<>>]}

MailResponses == ResponsesOf(Mailbox)

\* the responses on a mailbox long enough for a workflow to be suspended
\* after its second entry with a third to come
LongResponses == ResponsesOf(MailboxOf(MaxLong))

\* str(index): the store key of a loop index
Str(i) ==
    CASE i = 0 -> "0" [] i = 1 -> "1" [] i = 2 -> "2" [] i = 3 -> "3" [] i = 4 -> "4"
      [] i = 5 -> "5" [] i = 6 -> "6" [] i = 7 -> "7" [] i = 8 -> "8" [] i = 9 -> "9"

\* first words the operator may type after a command
HandleArgs == {Str(i) : i \in 0..(MaxUnread + 1)}

\* context.args of a command: nothing, a handle only, a handle and an instruction
ArgLists == {<<>>} \cup {<<h>> : h \in HandleArgs} \cup {<<h, "formal">> : h \in HandleArgs}

\* the map with no keys (an empty dict)
EmptyDict == [k \in {} |-> <<>>]

\* d[k] = v on a dict
DictSet(d, k, v) == [x \in DOMAIN d \cup {k} |-> IF x = k THEN v ELSE d[x]]

Min(a, b) == IF a < b THEN a ELSE b

\* texts are sequences of characters
NoText == <<"-">>
Missing == <<"KeyError">>
Fallback == <<"AI Response Unavailable.">>

\* completions the language model can return: "<" and the empty completion
LLMContents == {<<"<">>, <<>>}

\* responses of the language-model provider
LLMResponses ==
    {[status |-> 200, content |-> c] : c \in LLMContents}
        \cup {[status |-> 200, content |-> Missing], [status |-> 500, content |-> Missing]}

RECURSIVE HtmlEscape(_)
\* html.escape on a text
HtmlEscape(s) ==
    IF s = <<>> THEN <<>>
    ELSE LET c == Head(s)
             e == CASE c = "&" -> <<"&", "a", "m", "p", ";">>
                    [] c = "<" -> <<"&", "l", "t", ";">>
                    [] c = ">" -> <<"&", "g", "t", ";">>
                    [] OTHER -> <<c>>
         IN  e \o HtmlEscape(Tail(s))

(***************************************************************************)
(* Pure functions of the source.                                           *)
(***************************************************************************)
\* responses of the token endpoint: a status and whether the body carries
\* an access_token
TokenResponses ==
    {[status |-> 200, token |-> TRUE], [status |-> 200, token |-> FALSE],
     [status |-> 401, token |-> FALSE]}

\* get_access_token: TRUE when a (truthy) token comes back, FALSE for None
get_access_token(r) == r.status = 200 /\ r.token

\* fetch_unread_emails without its sender filter: the value list as it came
fetch_unread_unfiltered(r) ==
    IF r.status = 200
    THEN [ok |-> TRUE, list |-> r.value]
    ELSE [ok |-> FALSE, list |-> <<>>]

\* fetch_unread_emails: the value list without the mailbox's own messages,
\* or None (ok = FALSE) on a non-success status
fetch_unread_emails(r) ==
    IF r.status = 200
    THEN [ok |-> TRUE, list |-> SelectSeq(r.value, LAMBDA m : m.address # EMAIL_ADDRESS)]
    ELSE [ok |-> FALSE, list |-> <<>>]

\* `if emails:` is false for None and for the empty list
Truthy(emails) == emails.ok /\ emails.list # <<>>

\* markup tags a body may contain
Tags == {"<p>"}

\* BeautifulSoup(body_html).get_text(): the text fragments, tags dropped
get_text(body) == SelectSeq(body, LAMBDA t : t \notin Tags)

\* the dict stored under a handle
StoreEntry(email) ==
    [sender |-> email.name, subject |-> email.subject, body |-> get_text(email.body)]

\* emails[:5]
Capped(list) == SubSeq(list, 1, Min(Len(list), Cap))

\* " ".join(args[1:])
RECURSIVE Join(_)
Join(words) ==
    IF words = <<>> THEN <<>>
    ELSE IF Len(words) = 1 THEN words
    ELSE <<Head(words), " ">> \o Join(Tail(words))

\* generate_ai_response: the escaped completion on status 200 (Missing stands
\* for the KeyError raised when the body has no completion), else the fallback
generate_ai_response(r) ==
    IF r.status = 200
    THEN IF r.content = Missing THEN Missing ELSE HtmlEscape(r.content)
    ELSE Fallback

\* the prompt a handler passes to generate_ai_response
NoPrompt ==
    [kind |-> "none", subject |-> <<>>, body |-> <<>>, prev |-> NoText, instr |-> <<>>]

\* full_prompt of suggest_response
DraftPrompt(entry, user_message) ==
    [kind |-> "draft", subject |-> entry.subject, body |-> entry.body,
     prev |-> NoText, instr |-> user_message]

\* full_prompt of improve_response
RefinePrompt(previous, improvement) ==
    [kind |-> "refine", subject |-> <<>>, body |-> <<>>, prev |-> previous,
     instr |-> improvement]

(***************************************************************************)
(* State.                                                                  *)
(***************************************************************************)
VARIABLES
    main,          \* the main thread: the statement of __main__ it is in, and
                   \* whether the chat polling loop and the HTTP listener serve
    email_store,   \* dict: handle -> stored email entry
    ai_responses,  \* dict: handle -> latest draft
    pc,            \* per slot: "idle", or "push" for a fetch workflow
                   \* suspended in the await of line 121
    emails,        \* per slot: the workflow's local list `emails`
    index,         \* per slot: the workflow's loop variable `index`
    last,          \* what the step just taken did: the handler, its
                   \* outcome, the message sent and the prompt passed on
    owner,         \* history: the slot that wrote each handle of the store
    stale,         \* history: handles whose draft was stored before the
                   \* most recent email_store.clear()
    race,          \* history: "none"; "overlap" while every workflow begun
                   \* since two were first in flight together has stored a
                   \* batch and has completed or is in flight; "void" once
                   \* one has not
    last_batch     \* history, kept while race = "overlap": the batch of the
                   \* workflow that most recently stored its final entry

vars == <<main, email_store, ai_responses, pc, emails, index, last, owner, stale, race, last_batch>>

\* the observation of a step in which nothing is said
NoStep ==
    [op |-> "none", event |-> "none", reply |-> "none", nargs |-> 0, handle |-> "",
     batch |-> <<>>, dropped |-> 0, prompt |-> NoPrompt, text |-> NoText]

\* the observation of a step of a fetch workflow
FetchStep(event, reply, batch) ==
    [NoStep EXCEPT !.op = "fetch", !.event = event, !.reply = reply, !.batch = batch]

\* the observation of the step in which a fetch workflow read the provider's
\* response r and kept the list `got` of it: `dropped` counts the messages
\* of the response that are not in the list
FetchedStep(event, reply, batch, r, got) ==
    [FetchStep(event, reply, batch) EXCEPT !.dropped = Len(r.value) - Len(got.list)]

\* the observation of a step of a command handler: the number of words in
\* context.args, the handle looked up, the prompt passed to the language
\* model (NoPrompt when it is not called) and the text shown
CommandStep(op, event, reply, args, handle, prompt, text) ==
    [NoStep EXCEPT !.op = op, !.event = event, !.reply = reply, !.nargs = Len(args),
                   !.handle = handle, !.prompt = prompt, !.text = text]

\* the main thread at statement `at`, with the polling loop and the HTTP
\* listener serving or not
MainAt(at, polling, http) == [at |-> at, polling |-> polling, http |-> http]

\* module level: both dicts start empty, no handler has run, the main
\* thread is about to build the application
Init ==
    /\ main = MainAt("build", FALSE, FALSE)
    /\ email_store = EmptyDict
    /\ ai_responses = EmptyDict
    /\ pc = [p \in Proc |-> "idle"]
    /\ emails = [p \in Proc |-> <<>>]
    /\ index = [p \in Proc |-> 0]
    /\ last = NoStep
    /\ owner = EmptyDict
    /\ stale = {}
    /\ race = "none"
    /\ last_batch = <<>>

\* handlers run, and suspended ones resume, in the event loop of run_polling
Dispatching == main.polling

\* a new workflow takes the first free slot
FreeSlot(p) == pc[p] = "idle" /\ \A q \in Proc : q < p => pc[q] # "idle"

\* some fetch workflow other than p is suspended
OthersRunning(p) == \E q \in Proc \ {p} : pc[q] # "idle"

\* the batch of a suspended workflow that has already stored its final
\* entry, <<>> when there is none
Replaced ==
    LET done == {q \in Proc : pc[q] = "push" /\ index[q] = Len(emails[q])}
    IN  IF done = {} THEN <<>> ELSE emails[CHOOSE q \in done : TRUE]

\* a workflow in slot p starts to store a batch
RaceAtStart(p) ==
    IF ~OthersRunning(p) THEN "none" ELSE IF race = "void" THEN "void" ELSE "overlap"

\* a workflow in slot p ends without having stored a batch, or raises
RaceAtFailure(p) ==
    IF race = "overlap" \/ OthersRunning(p) THEN "void" ELSE race

\* last_batch after a workflow in slot p started and stored the final entry
\* of `batch` (stored = TRUE) or not
BatchAtStart(p, stored, batch) ==
    IF RaceAtStart(p) # "overlap" THEN <<>>
    ELSE IF stored THEN batch
    ELSE IF race = "overlap" THEN last_batch ELSE Replaced

(***************************************************************************)
(* fetch_emails_command and send_email_to_telegram.  The await of line 147 *)
(* (the "Fetching..." message) comes before the handler reads or writes    *)
(* anything, so a workflow is modelled from the moment that await returns. *)
(***************************************************************************)
\* the "Fetching..." message was rejected: the handler raises at line 147
FetchAckRaised(p) ==
    /\ Dispatching
    /\ FreeSlot(p)
    /\ last' = FetchStep("aborted", "none", <<>>)
    /\ race' = RaceAtFailure(p)
    /\ last_batch' = IF race' = "overlap" THEN last_batch ELSE <<>>
    /\ UNCHANGED <<main, email_store, ai_responses, pc, emails, index, owner, stale>>

\* get_access_token returns None: the workflow ends silently
FetchNoToken(p, tok) ==
    /\ Dispatching
    /\ FreeSlot(p)
    /\ ~get_access_token(tok)
    /\ last' = FetchStep("no_token", "none", <<>>)
    /\ race' = RaceAtFailure(p)
    /\ last_batch' = IF race' = "overlap" THEN last_batch ELSE <<>>
    /\ UNCHANGED <<main, email_store, ai_responses, pc, emails, index, owner, stale>>

\* `emails` is None or empty: the else branch sends the no-unread message;
\* neither dict is touched
FetchNothing(p, tok, resp) ==
    LET got == fetch_unread_emails(resp) IN
    /\ Dispatching
    /\ FreeSlot(p)
    /\ get_access_token(tok)
    /\ ~Truthy(got)
    /\ last' = FetchedStep(IF got.ok THEN "empty" ELSE "fetch_failed", "no_unread", <<>>,
                            resp, got)
    /\ race' = RaceAtFailure(p)
    /\ last_batch' = IF race' = "overlap" THEN last_batch ELSE <<>>
    /\ UNCHANGED <<main, email_store, ai_responses, pc, emails, index, owner, stale>>

\* the store after the loop body has stored emails[i] under str(i)
StoreEmail(store, i, email) == DictSet(store, Str(i), StoreEntry(email))

\* `emails` is a non-empty list: email_store.clear(), the first loop
\* iteration stores handle 1, and the workflow suspends in its push
FetchBatch(p, tok, resp) ==
    LET got == fetch_unread_emails(resp)
        batch == Capped(got.list)
    IN  /\ Dispatching
        /\ FreeSlot(p)
        /\ get_access_token(tok)
        /\ Truthy(got)
        /\ email_store' = StoreEmail(EmptyDict, 1, batch[1])
        /\ owner' = DictSet(EmptyDict, Str(1), p)
        /\ pc' = [pc EXCEPT ![p] = "push"]
        /\ emails' = [emails EXCEPT ![p] = batch]
        /\ index' = [index EXCEPT ![p] = 1]
        /\ last' = FetchedStep("stored", Str(1), batch, resp, got)
        /\ stale' = DOMAIN ai_responses
        /\ race' = RaceAtStart(p)
        /\ last_batch' = BatchAtStart(p, Len(batch) = 1, batch)
        /\ UNCHANGED <<main, ai_responses>>

\* the push of the current email returned and another email is left: the
\* next loop iteration stores it and suspends in its push
FetchNext(p) ==
    LET i == index[p] + 1 IN
    /\ Dispatching
    /\ pc[p] = "push"
    /\ index[p] < Len(emails[p])
    /\ email_store' = StoreEmail(email_store, i, emails[p][i])
    /\ owner' = DictSet(owner, Str(i), p)
    /\ index' = [index EXCEPT ![p] = i]
    /\ last' = FetchStep("stored", Str(i), emails[p])
    /\ last_batch' = IF race = "overlap" /\ i = Len(emails[p]) THEN emails[p] ELSE last_batch
    /\ UNCHANGED <<main, ai_responses, pc, emails, stale, race>>

\* a fetch workflow has returned or raised: its locals are gone
Finish(p) ==
    /\ pc' = [pc EXCEPT ![p] = "idle"]
    /\ emails' = [emails EXCEPT ![p] = <<>>]
    /\ index' = [index EXCEPT ![p] = 0]

\* the push of the last email returned: the workflow completes
FetchComplete(p) ==
    /\ Dispatching
    /\ pc[p] = "push"
    /\ index[p] = Len(emails[p])
    /\ Finish(p)
    /\ last' = FetchStep("complete", "none", emails[p])
    /\ UNCHANGED <<main, email_store, ai_responses, owner, stale, race, last_batch>>

\* a push was rejected: send_message raises and the workflow ends where it is
FetchPushRaised(p) ==
    /\ Dispatching
    /\ pc[p] = "push"
    /\ Finish(p)
    /\ last' = FetchStep("aborted", "none", emails[p])
    /\ race' = RaceAtFailure(p)
    /\ last_batch' = IF race' = "overlap" THEN last_batch ELSE <<>>
    /\ UNCHANGED <<main, email_store, ai_responses, owner, stale>>

(***************************************************************************)
(* suggest_response, improve_response, help_command.  Each runs to its     *)
(* final reply without suspending, so each is one step.                    *)
(***************************************************************************)
\* the arguments check with its bound off by one: a handle alone passes
ArgsOkLoose(args) == Len(args) >= 1

\* `not args or len(args) < 2` is false: a handle and an instruction are there
ArgsOk(args) == Len(args) >= 2

\* the handle a suggest looks up: email_store.get(email_index) found an entry
SuggestFound(store, h) == h \in DOMAIN store

\* the handle a refine looks up: `email_index not in ai_responses` is false
RefineFound(drafts, h) == h \in DOMAIN drafts

\* the draft store rebuilt around the new draft: the other drafts are lost
StoreDraftAlone(drafts, h, text) == DictSet(EmptyDict, h, text)

\* ai_responses[email_index] = ai_response
StoreDraft(drafts, h, text) == DictSet(drafts, h, text)

\* the refine prompt built without the stored response
RefineSeedUnset(drafts, h) == NoText

\* the previous response improve_response puts into its prompt
RefineSeed(drafts, h) == drafts[h]

\* malformed arguments: the usage reply
SuggestUsage(args) ==
    /\ Dispatching
    /\ ~ArgsOk(args)
    /\ last' = CommandStep("suggest", "usage", "usage", args, "", NoPrompt, NoText)
    /\ UNCHANGED <<main, email_store, ai_responses, pc, emails, index, owner, stale,
                   race, last_batch>>

\* the handle is not a key of email_store: the invalid-number reply
SuggestInvalid(args) ==
    /\ Dispatching
    /\ ArgsOk(args)
    /\ ~SuggestFound(email_store, args[1])
    /\ last' = CommandStep("suggest", "invalid", "invalid", args, args[1], NoPrompt, NoText)
    /\ UNCHANGED <<main, email_store, ai_responses, pc, emails, index, owner, stale,
                   race, last_batch>>

\* the handle is found: the language model is called; its result is stored
\* and shown, unless reading the completion raised
SuggestDraft(args, llm) ==
    LET h == args[1]
        prompt == DraftPrompt(email_store[h], Join(Tail(args)))
        ai_response == generate_ai_response(llm)
    IN  /\ Dispatching
        /\ ArgsOk(args)
        /\ SuggestFound(email_store, h)
        /\ IF ai_response = Missing
           THEN /\ last' = CommandStep("suggest", "raised", "none", args, h, prompt, NoText)
                /\ UNCHANGED <<ai_responses, stale>>
           ELSE /\ ai_responses' = StoreDraft(ai_responses, h, ai_response)
                /\ stale' = stale \ {h}
                /\ last' = CommandStep("suggest", "ok", "draft", args, h, prompt, ai_response)
        /\ UNCHANGED <<main, email_store, pc, emails, index, owner, race, last_batch>>

\* malformed arguments: the usage reply
ImproveUsage(args) ==
    /\ Dispatching
    /\ ~ArgsOk(args)
    /\ last' = CommandStep("refine", "usage", "usage", args, "", NoPrompt, NoText)
    /\ UNCHANGED <<main, email_store, ai_responses, pc, emails, index, owner, stale,
                   race, last_batch>>

\* the handle has no stored response: the suggest-first reply
ImproveNoDraft(args) ==
    /\ Dispatching
    /\ ArgsOk(args)
    /\ ~RefineFound(ai_responses, args[1])
    /\ last' = CommandStep("refine", "no_draft", "suggest_first", args, args[1],
                            NoPrompt, NoText)
    /\ UNCHANGED <<main, email_store, ai_responses, pc, emails, index, owner, stale,
                   race, last_batch>>

\* the handle has a stored response: the language model is called with it;
\* the result replaces it and is shown, unless reading the completion raised
ImproveDraft(args, llm) ==
    LET h == args[1]
        prompt == RefinePrompt(RefineSeed(ai_responses, h), Join(Tail(args)))
        new_response == generate_ai_response(llm)
    IN  /\ Dispatching
        /\ ArgsOk(args)
        /\ RefineFound(ai_responses, h)
        /\ IF new_response = Missing
           THEN /\ last' = CommandStep("refine", "raised", "none", args, h, prompt, NoText)
                /\ UNCHANGED ai_responses
           ELSE /\ ai_responses' = StoreDraft(ai_responses, h, new_response)
                /\ last' = CommandStep("refine", "ok", "refined", args, h, prompt,
                                            new_response)
        /\ UNCHANGED <<main, email_store, pc, emails, index, owner, stale, race, last_batch>>

\* /help: the command listing
HelpCommand ==
    /\ Dispatching
    /\ last' = CommandStep("help", "ok", "help", <<>>, "", NoPrompt, NoText)
    /\ UNCHANGED <<main, email_store, ai_responses, pc, emails, index, owner, stale,
                   race, last_batch>>

(***************************************************************************)
(* __main__.  The main thread builds the application and calls             *)
(* run_polling, which runs the event loop in the main thread and returns   *)
(* when the process is told to stop; only then does the main thread reach  *)
(* flask_app.run.                                                          *)
(***************************************************************************)
\* the handlers are registered and run_polling begins to poll
StartPolling ==
    /\ main.at = "build"
    /\ main' = MainAt("run_polling", TRUE, main.http)
    /\ last' = NoStep
    /\ UNCHANGED <<email_store, ai_responses, pc, emails, index, owner, stale, race,
                   last_batch>>

\* a stop signal: run_polling shuts the event loop down and returns
StopPolling ==
    /\ main.at = "run_polling"
    /\ main' = MainAt("flask_run", FALSE, main.http)
    /\ last' = NoStep
    /\ UNCHANGED <<email_store, ai_responses, pc, emails, index, owner, stale, race,
                   last_batch>>

\* flask_app.run binds port 8080 and serves
StartHttp ==
    /\ main.at = "flask_run"
    /\ ~main.http
    /\ main' = MainAt("flask_run", main.polling, TRUE)
    /\ last' = NoStep
    /\ UNCHANGED <<email_store, ai_responses, pc, emails, index, owner, stale, race,
                   last_batch>>

\* a stop signal: flask_app.run returns and the process ends
StopHttp ==
    /\ main.at = "flask_run"
    /\ main.http
    /\ main' = MainAt("exit", main.polling, FALSE)
    /\ last' = NoStep
    /\ UNCHANGED <<email_store, ai_responses, pc, emails, index, owner, stale, race,
                   last_batch>>

(***************************************************************************)
(* The event loop: any handler may start, any suspended workflow resume.   *)
(***************************************************************************)
\* a step of a fetch workflow in slot p, the mail provider answering with
\* one of `responses`
FetchWorkflowOn(p, responses) ==
    \/ FetchAckRaised(p)
    \/ \E tok \in TokenResponses : FetchNoToken(p, tok)
    \/ \E tok \in TokenResponses, resp \in responses : FetchNothing(p, tok, resp)
    \/ \E tok \in TokenResponses, resp \in responses : FetchBatch(p, tok, resp)
    \/ FetchNext(p)
    \/ FetchComplete(p)
    \/ FetchPushRaised(p)

\* a step of a fetch workflow in slot p
FetchWorkflow(p) == FetchWorkflowOn(p, MailResponses)

\* a command handler runs
Command ==
    \/ \E args \in ArgLists : SuggestUsage(args)
    \/ \E args \in ArgLists : SuggestInvalid(args)
    \/ \E args \in ArgLists, llm \in LLMResponses : SuggestDraft(args, llm)
    \/ \E args \in ArgLists : ImproveUsage(args)
    \/ \E args \in ArgLists : ImproveNoDraft(args)
    \/ \E args \in ArgLists, llm \in LLMResponses : ImproveDraft(args, llm)
    \/ HelpCommand

\* the process while it polls: the operator's commands, with one
\* /fetch_emails in flight at a time
Next == StartPolling \/ FetchWorkflow(1) \/ Command

Spec == Init /\ [][Next]_vars

\* /fetch_emails alone, with up to two workflows in flight together
NextRace == StartPolling \/ \E p \in Proc : FetchWorkflow(p)

SpecRace == Init /\ [][NextRace]_vars

\* /fetch_emails alone on the longer mailbox, two workflows in flight
NextLong == StartPolling \/ \E p \in Proc : FetchWorkflowOn(p, LongResponses)

SpecLong == Init /\ [][NextLong]_vars

\* the whole run of the process, from its start until it ends
NextMain == Next \/ StopPolling \/ StartHttp \/ StopHttp

\* the main thread is not stopped while it has a statement to execute; stop
\* signals come from outside and may never come
SpecMain ==
    Init /\ [][NextMain]_vars /\ WF_vars(StartPolling) /\ WF_vars(StartHttp)

(***************************************************************************)
(* Vocabulary of the claims.                                               *)
(***************************************************************************)
\* no fetch workflow is in flight
Quiet == \A p \in Proc : pc[p] = "idle"

RECURSIVE Filled(_, _)
\* the store that holds exactly the first n emails of `batch` under 1..n
Filled(batch, n) ==
    IF n = 0 THEN EmptyDict ELSE StoreEmail(Filled(batch, n - 1), n, batch[n])

\* the store that holds exactly `batch`
BatchStore(batch) == Filled(batch, Len(batch))

\* the handles 1..n as the operator types them
Handles(n) == {Str(i) : i \in 1..n}

\* the step just taken was a well-formed refine
RefineStep(step) == step.op = "refine" /\ step.nargs >= 2

\* the step just taken rejected a refine: the reply sent, no prompt built
Rejected(step, reply) == step.reply = reply /\ step.prompt = NoPrompt

(***************************************************************************)
(* C1.  After a fetch workflow that stored a batch completes, no handle of *)
(* the store still carries a draft that was stored before that fetch       *)
(* replaced the batch.                                                     *)
(***************************************************************************)
C1_FetchResetsDrafts ==
    (last.op = "fetch" /\ last.event = "complete" /\ Quiet)
        => \A h \in DOMAIN email_store : ~(h \in DOMAIN ai_responses /\ h \in stale)

(***************************************************************************)
(* C2.  When a fetch that returned a batch of N emails (N = 0 included)    *)
(* has completed and no fetch is in flight, the store holds exactly the    *)
(* handles 1..N, handle i maps to the i-th email of the batch, and the     *)
(* lookup of suggest finds no other handle.                                *)
(***************************************************************************)
C2_HandlesAreBatch ==
    (last.op = "fetch" /\ last.event \in {"complete", "empty"} /\ Quiet)
        => /\ email_store = BatchStore(last.batch)
           /\ \A h \in HandleArgs \ Handles(Len(last.batch)) : ~SuggestFound(email_store, h)

(***************************************************************************)
(* C3.  A well-formed refine for a handle that is not in email_store is    *)
(* rejected: the suggest-first reply is sent, no prompt goes to the        *)
(* language model, ai_responses is unchanged.                              *)
(***************************************************************************)
C3_RefineAbsentHandleRejected ==
    [][(RefineStep(last') /\ last'.handle \notin DOMAIN email_store)
          => (Rejected(last', "suggest_first") /\ ai_responses' = ai_responses)]_vars

(***************************************************************************)
(* C4.  A well-formed refine for a handle of email_store for which no      *)
(* suggest has stored a draft since the most recent fetch replaced the     *)
(* batch is rejected with the suggest-first reply: no prompt goes to the   *)
(* language model and ai_responses is unchanged.                           *)
(***************************************************************************)
C4_RefineBeforeSuggestRejected ==
    [][(/\ RefineStep(last')
        /\ last'.handle \in DOMAIN email_store
        /\ (last'.handle \notin DOMAIN ai_responses \/ last'.handle \in stale))
          => (Rejected(last', "suggest_first") /\ ai_responses' = ai_responses)]_vars

C7_EmptyFetchClearsStore ==
    (last.op = "fetch" /\ last.event = "empty" /\ Quiet) => email_store = EmptyDict

(***************************************************************************)
(* C8.  A suggest that succeeds on handle h writes the returned draft under*)
(* h and nothing else: every other draft and the whole email store are     *)
(* unchanged.                                                              *)
(***************************************************************************)
C8_SuggestWritesOnlyItsHandle ==
    [][(last'.op = "suggest" /\ last'.event = "ok")
          => LET h == last'.handle IN
             /\ email_store' = email_store
             /\ DOMAIN ai_responses' = DOMAIN ai_responses \cup {h}
             /\ ai_responses'[h] = last'.text
             /\ \A k \in DOMAIN ai_responses \ {h} : ai_responses'[k] = ai_responses[k]]_vars

\* a suggest has just succeeded while another handle holds a draft
C8_Witness ==
    /\ last.op = "suggest" /\ last.event = "ok"
    /\ \E k \in DOMAIN ai_responses : k # last.handle
    /\ \E k \in DOMAIN email_store : k # last.handle

(***************************************************************************)
(* C9.  After a successful suggest on h the stored draft of h is the text  *)
(* returned; a successful refine on h passes the draft stored at that      *)
(* moment to the language model as the previous response, and afterwards   *)
(* the stored draft of h is the new text returned.                         *)
(***************************************************************************)
C9_RefineSeededWithStoredDraft ==
    [][/\ (last'.op = "suggest" /\ last'.event = "ok")
            => (last'.prompt.kind = "draft" /\ ai_responses'[last'.handle] = last'.text)
       /\ (last'.op = "refine" /\ last'.event = "ok")
            => /\ last'.prompt.kind = "refine"
               /\ last'.prompt.prev = ai_responses[last'.handle]
               /\ ai_responses'[last'.handle] = last'.text]_vars

\* a refine has just replaced a draft by a different text
C9_Witness ==
    /\ last.op = "refine" /\ last.event = "ok"
    /\ last.prompt.prev # last.text
    /\ ai_responses[last.handle] = last.text

(***************************************************************************)
(* C10.  A suggest or refine with fewer than two argument words gets the   *)
(* usage reply, and a well-formed suggest for a handle that is not in      *)
(* email_store gets the invalid-number reply; in both cases no prompt goes *)
(* to the language model and neither dict changes.                         *)
(***************************************************************************)
C10_RejectedCommandsChangeNothing ==
    [][(\/ (last'.op \in {"suggest", "refine"} /\ last'.nargs < 2)
        \/ (last'.op = "suggest" /\ last'.nargs >= 2
              /\ last'.handle \notin DOMAIN email_store))
          => /\ last'.reply = (IF last'.nargs < 2 THEN "usage" ELSE "invalid")
             /\ last'.prompt = NoPrompt
             /\ email_store' = email_store
             /\ ai_responses' = ai_responses]_vars

\* a handle without an instruction has just been answered with the usage
\* reply while the store and the drafts hold entries
C10_Witness ==
    /\ last.op \in {"suggest", "refine"} /\ last.nargs = 1 /\ last.reply = "usage"
    /\ email_store # EmptyDict
    /\ ai_responses # EmptyDict

\* the language-model provider failed: a non-success status, or a success
\* status whose completion is missing or empty
ProviderFailed(llm) == llm.status # 200 \/ llm.content \in {Missing, <<>>}

(***************************************************************************)
(* C11.  Whenever a suggest or refine calls the language model and the     *)
(* provider fails (non-success status, or success with a missing or empty  *)
(* completion), the drafter returns the fallback string and the handler    *)
(* ends by sending a reply that shows it.                                  *)
(***************************************************************************)
C11_ProviderFailureFallsBack ==
    [][\A args \in ArgLists, llm \in LLMResponses :
          ((SuggestDraft(args, llm) \/ ImproveDraft(args, llm)) /\ ProviderFailed(llm))
              => (last'.text = Fallback /\ last'.reply \in {"draft", "refined"})]_vars

(***************************************************************************)
(* C12.  A rejected push does not end the fetch workflow: whenever a       *)
(* workflow that began to store a batch has ended, after a rejected push   *)
(* or not, the store holds the complete batch 1..N.                        *)
(***************************************************************************)
C12_PushFailureSwallowed ==
    (/\ last.op = "fetch"
     /\ last.event \in {"complete", "aborted"}
     /\ last.batch # <<>>
     /\ Quiet)
        => email_store = BatchStore(last.batch)

(***************************************************************************)
(* C13.  A fetch whose credential acquisition fails leaves email_store and *)
(* ai_responses unchanged and sends a message to the operator.             *)
(***************************************************************************)
C13_NoTokenReported ==
    [][(last'.op = "fetch" /\ last'.event = "no_token")
          => /\ email_store' = email_store
             /\ ai_responses' = ai_responses
             /\ last'.reply # "none"]_vars

(***************************************************************************)
(* C14.  After a fetch that the mail provider answered with a non-success  *)
(* status the operator receives a message, and it is not the message sent  *)
(* when the fetch succeeded with no unread mail.                           *)
(***************************************************************************)
C14_FetchFailureDistinct ==
    (last.op = "fetch" /\ last.event = "fetch_failed")
        => last.reply \notin {"none", "no_unread"}

\* the message was not sent by the mailbox itself
NotSelf(m) == m.address # EMAIL_ADDRESS

\* `kept` is `value` without the mailbox's own messages: it has as many
\* elements as `value` has messages of other senders, none of them the
\* mailbox's own, and they are elements of `value` in their order
KeptOthers(kept, value) ==
    /\ Len(kept) = Cardinality({i \in 1..Len(value) : NotSelf(value[i])})
    /\ \A i \in 1..Len(kept) : NotSelf(kept[i])
    /\ kept \in SubLists(value)

(***************************************************************************)
(* C15.  Whatever the mail provider answers, the list a fetch works on is  *)
(* the answer's messages without those whose sender address is the mailbox *)
(* address, the others in their original order; and in every state no     *)
(* store entry, no list of a workflow in flight and no notification stems  *)
(* from a message of the mailbox itself.                                   *)
(***************************************************************************)
C15_SelfMailExcluded ==
    [][/\ (last'.op = "fetch" /\ last'.event \in {"stored", "empty"})
            => \A p \in Proc, tok \in TokenResponses, resp \in MailResponses :
                  /\ FetchBatch(p, tok, resp)
                        => \E kept \in SubLists(resp.value) :
                              KeptOthers(kept, resp.value) /\ last'.batch = Capped(kept)
                  /\ (FetchNothing(p, tok, resp) /\ resp.status = 200)
                        => KeptOthers(<<>>, resp.value)
       /\ \A h \in DOMAIN email_store' : email_store'[h] # StoreEntry(SelfMail)
       /\ \A p \in Proc : \A i \in 1..Len(emails'[p]) : NotSelf(emails'[p][i])
       /\ \A i \in 1..Len(last'.batch) : NotSelf(last'.batch[i])]_vars

\* a fetch has just read an answer that had a message of the mailbox itself
\* between two customer messages: the message is dropped, the batch is the
\* two customer messages in their order, and the first is stored
C15_Witness ==
    /\ last.op = "fetch" /\ last.event = "stored" /\ last.dropped = 1
    /\ last.batch = <<Customer(1), Customer(2)>>
    /\ email_store = Filled(last.batch, 1)

\* the polling loop and the HTTP listener are serving at the same time
BothServing == main.polling /\ main.http

(***************************************************************************)
(* C16.  After process start the chat polling loop and the HTTP listener   *)
(* both become active: the process eventually reaches, and stays in, a     *)
(* state where both are serving.                                           *)
(***************************************************************************)
C16_BothServeConcurrently == <>[]BothServing

(***************************************************************************)
(* C17.  Every step that leaves a fetch workflow suspended in a push       *)
(* leaves the store complete: when the workflow has just begun, the store  *)
(* is what it was before (the previous batch) or the whole new batch; at   *)
(* each later push it is the whole new batch.  A suggest handled while the *)
(* workflow is suspended then never reads a strict prefix of the batch.    *)
(***************************************************************************)
C17_ReplaceHasNoSuspension ==
    [][\A p \in Proc :
          /\ (pc[p] = "idle" /\ pc'[p] = "push")
                => (email_store' = email_store \/ email_store' = BatchStore(emails'[p]))
          /\ (pc[p] = "push" /\ pc'[p] = "push" /\ index'[p] # index[p])
                => email_store' = BatchStore(emails'[p])]_vars

C19_DraftsWithinStore ==
    DOMAIN ai_responses \subseteq DOMAIN email_store

(***************************************************************************)
(* C20.  Every suggest that passes the argument and handle checks stores a *)
(* draft under its handle and shows it; when the language-model provider   *)
(* answered with a non-success status that draft is the fallback string.   *)
(* A well-formed refine on a handle whose draft is the fallback string is  *)
(* accepted and passes the fallback string on as the previous response.    *)
(***************************************************************************)
C20_SuggestAlwaysDrafts ==
    [][/\ (last'.op = "suggest" /\ last'.nargs >= 2
              /\ last'.handle \in DOMAIN email_store)
            => /\ last'.reply = "draft"
               /\ last'.handle \in DOMAIN ai_responses'
               /\ ai_responses'[last'.handle] = last'.text
       /\ \A args \in ArgLists, llm \in LLMResponses :
            (SuggestDraft(args, llm) /\ llm.status # 200)
                => ai_responses'[args[1]] = Fallback
       /\ (RefineStep(last') /\ last'.handle \in DOMAIN ai_responses
              /\ ai_responses[last'.handle] = Fallback)
            => (last'.prompt.kind = "refine" /\ last'.prompt.prev = Fallback)]_vars

====
